---- MODULE Spec2Model ----
(***************************************************************************)
(* A model of axum_either: the two-variant sum AxumEither<L, R>, its       *)
(* FromRequest / IntoResponse implementations, AxumEitherRejection and the *)
(* one_of! / match_one_of! / map_one_of! macros (src/src/lib.rs), driven   *)
(* by handlers shaped like those of the examples.                          *)
(*                                                                         *)
(* The per-type extractors (L::from_request) and the payloads' own         *)
(* into_response are type parameters of the library: the model draws what  *)
(* each declared type's extractor returns for the request from a bounded   *)
(* set, and renders payloads and failures to uninterpreted responses.      *)
(***************************************************************************)
EXTENDS Integers, Sequences, FiniteSets, TLC

\* ---------------------------------------------------------------- bounds
MaxArity == 3
MaxVal == 1

\* ------------------------------------------------------------- constants
INTERNAL_SERVER_ERROR == 500
BAD_REQUEST == 400

Values == 0..MaxVal
Arities == 2..MaxArity
\* Statuses a per-type failure renders to: a redirect, two client errors and
\* a server error other than 500.
RejStatuses == {303, 400, 415, 503}

None == [none |-> TRUE]

\* ------------------------------------------------------------ data model
\* enum AxumEither<L, R> { Left(L), Right(R) }
Left(l) == [tag |-> "Left", val |-> l]
Right(r) == [tag |-> "Right", val |-> r]

\* struct AxumEitherRejection { left_error, right_error }
AxumEitherRejection(le, re) == [left_error |-> le, right_error |-> re]

\* Result<T, E>
Ok(v) == [ok |-> TRUE, val |-> v]
Err(e) == [ok |-> FALSE, err |-> e]

\* A payload of the i-th declared type, and the failure value of the i-th
\* declared type's extractor.
Payload(i, v) == [ty |-> i, v |-> v]
LeafRejection(i, s) == [ty |-> i, status |-> s]

\* What Ti::from_request(req) can return.
Outcomes(i) ==
    {Ok(Payload(i, v)) : v \in Values} \cup {Err(LeafRejection(i, s)) : s \in RejStatuses}

VARIABLES
    n,          \* arity N of the handler's one_of!(T1, ..., TN) argument
    outcome,    \* outcome[i]: what Ti::from_request returns for this request
    phase,      \* "extract", "handle", "respond", "done"
    stack,      \* from_request activations, outermost first
    inflight,   \* the leaf extraction in flight (0: none)
    ret,        \* the value being returned to the top activation (None: none)
    log,        \* begin/end events of the leaf extractions
    extracted,  \* the result of the outermost from_request (None: not yet)
    handled,    \* what the handler produced (None: not yet)
    response    \* the response sent (None: not yet)

vars == <<n, outcome, phase, stack, inflight, ret, log, extracted, handled, response>>

\* one_of!(T1, ..., TN) nests to the right: the activation at depth d has
\* L = Td and R = one_of!(T(d+1), ..., TN), or R = TN when d = N - 1.
Depth == Len(stack)
Frame(pc, le) == [pc |-> pc, left_error |-> le]
SetTop(f) == [stack EXCEPT ![Len(stack)] = f]
Pop == SubSeq(stack, 1, Len(stack) - 1)

\* ------------------------------------------------------ Sum Type Core
\* A closure passed to map_left / map_right: a name and its graph.
Closure(name, fn) == [name |-> name, fn |-> fn]
Fns == [Values -> Values]
\* Calling closure f on payload x: the result records which closure made it.
Call(f, x) == [ty |-> x.ty, v |-> f.fn[x.v], by |-> f.name]

\* lib.rs:71-76
map_left(self, f) ==
    IF self.tag = "Left" THEN Left(Call(f, self.val)) ELSE Right(self.val)

\* lib.rs:88-93
map_right(self, f) ==
    IF self.tag = "Left" THEN Left(self.val) ELSE Right(Call(f, self.val))

\* map_lr with the right function handed to map_left.
map_lr_left_twice(self, lf, rf) == map_left(map_left(self, lf), rf)

\* lib.rs:105-111
map_lr(self, lf, rf) == map_right(map_left(self, lf), rf)

\* lib.rs:175-180
into_inner(self) == IF self.tag = "Left" THEN self.val ELSE self.val

\* ------------------------------------------------------------ responses
\* A response: status, content-type header and body. A body is a sequence
\* of tokens: a literal piece of text, or the Debug form of a value.
Response(status, content_type, body) ==
    [status |-> status, content_type |-> content_type, body |-> body]
Lit(s) == <<"lit", s>>
\* `{:?}` of a Response prints its status and headers on one line; the boxed
\* body prints as an opaque name.
Debug(r) == <<"dbg", r.status, r.content_type>>

\* The payload types' own IntoResponse (a type parameter of the library).
PayloadIntoResponse(p) == Response(200, "payload", <<<<"val", p>>>>)
\* The per-type failures' own IntoResponse (L::Rejection: IntoResponse).
LeafRejectionIntoResponse(e) == Response(e.status, "rejection", <<<<"rej", e.ty>>>>)

\* into_response that renders the sum's own Debug text.
AxumEither_into_response_debug(self) ==
    [resp |-> Response(200, "text/plain", <<<<"val", self>>>>), calls |-> <<>>]

\* lib.rs:216-221  impl IntoResponse for AxumEither: `l.into_response()` and
\* `r.into_response()` resolve to this impl again when the side is itself an
\* AxumEither, and to the payload's impl otherwise. The result carries the
\* payloads whose own into_response ran.
RECURSIVE AxumEither_into_response(_)
AxumEither_into_response(self) ==
    IF "tag" \notin DOMAIN self
    THEN [resp |-> PayloadIntoResponse(self), calls |-> <<self>>]
    ELSE IF self.tag = "Left"
         THEN AxumEither_into_response(self.val)
         ELSE AxumEither_into_response(self.val)

\* http::StatusCode::is_server_error, as used at lib.rs:245-246
is_server_error(s) == 600 > s /\ s >= 500

\* format! with its two arguments exchanged.
format_swapped(left_response, right_response) ==
    << Lit("Could not parse request"), Lit("\n"),
       Lit("\tleft error: "), Debug(right_response), Lit("\n"),
       Lit("\tright error: "), Debug(left_response) >>

\* lib.rs:256-259  format!("Could not parse request\n\tleft error: {:?}\n\tright error: {:?}", ..)
format(left_response, right_response) ==
    << Lit("Could not parse request"), Lit("\n"),
       Lit("\tleft error: "), Debug(left_response), Lit("\n"),
       Lit("\tright error: "), Debug(right_response) >>

\* The status test that looks at the left response alone.
combined_status_left_only(left_response, right_response) ==
    IF is_server_error(left_response.status)
    THEN INTERNAL_SERVER_ERROR
    ELSE BAD_REQUEST

\* The status test with && for ||.
combined_status_and(left_response, right_response) ==
    IF is_server_error(left_response.status) /\ is_server_error(right_response.status)
    THEN INTERNAL_SERVER_ERROR
    ELSE BAD_REQUEST

\* lib.rs:245-251
combined_status(left_response, right_response) ==
    IF is_server_error(left_response.status) \/ is_server_error(right_response.status)
    THEN INTERNAL_SERVER_ERROR
    ELSE BAD_REQUEST

\* lib.rs:242-262  impl IntoResponse for AxumEitherRejection; a side that is
\* itself an AxumEitherRejection renders through this impl again.
RECURSIVE AxumEitherRejection_into_response(_)
AxumEitherRejection_into_response(self) ==
    IF "left_error" \notin DOMAIN self
    THEN LeafRejectionIntoResponse(self)
    ELSE LET left_response == AxumEitherRejection_into_response(self.left_error)
             right_response == AxumEitherRejection_into_response(self.right_error)
         IN  Response(combined_status(left_response, right_response),
                      "text/plain",
                      format(left_response, right_response))

\* The lines of a body: its tokens split at the "\n" literals.
IsNewline(tok) == tok[1] = "lit" /\ tok[2] = "\n"
RECURSIVE Lines(_)
Lines(body) ==
    IF \A j \in 1..Len(body) : ~IsNewline(body[j])
    THEN <<body>>
    ELSE LET j == CHOOSE k \in 1..Len(body) :
                      IsNewline(body[k]) /\ \A m \in 1..(k - 1) : ~IsNewline(body[m])
         IN  <<SubSeq(body, 1, j - 1)>> \o Lines(SubSeq(body, j + 1, Len(body)))

\* --------------------------------------------------------------- macros
\* The i-th handler expression of a match_one_of! / map_one_of! call,
\* evaluated with its pattern bound to payload p.
Eval(h, p) == [out |-> [handler |-> h, arg |-> p], ran |-> <<h>>]

\* match_one_of! whose two-handler arm pairs Right with the first handler.
RECURSIVE match_one_of_base_swapped(_, _)
match_one_of_base_swapped(either, hs) ==
    IF Len(hs) = 2
    THEN IF either.tag = "Left"
         THEN Eval(hs[1], either.val)
         ELSE Eval(hs[1], either.val)
    ELSE IF either.tag = "Left"
         THEN Eval(hs[1], either.val)
         ELSE match_one_of_base_swapped(either.val, Tail(hs))

\* lib.rs:300-315  match_one_of!{either, h1, .., hN}: hs is the handler list.
RECURSIVE match_one_of(_, _)
match_one_of(either, hs) ==
    IF Len(hs) = 2
    THEN IF either.tag = "Left"
         THEN Eval(hs[1], either.val)
         ELSE Eval(hs[2], either.val)
    ELSE IF either.tag = "Left"
         THEN Eval(hs[1], either.val)
         ELSE match_one_of(either.val, Tail(hs))

\* map_one_of! whose recursive arm does not rewrap the inner chain in Right.
RECURSIVE map_one_of_no_rewrap(_, _)
map_one_of_no_rewrap(either, hs) ==
    IF Len(hs) = 2
    THEN IF either.tag = "Left"
         THEN LET e == Eval(hs[1], either.val) IN [out |-> Left(e.out), ran |-> e.ran]
         ELSE LET e == Eval(hs[2], either.val) IN [out |-> Right(e.out), ran |-> e.ran]
    ELSE IF either.tag = "Left"
         THEN LET e == Eval(hs[1], either.val) IN [out |-> Left(e.out), ran |-> e.ran]
         ELSE LET m == map_one_of_no_rewrap(either.val, Tail(hs))
              IN  [out |-> m.out, ran |-> m.ran]

\* lib.rs:331-348  map_one_of!{either, h1, .., hN}
RECURSIVE map_one_of(_, _)
map_one_of(either, hs) ==
    IF Len(hs) = 2
    THEN IF either.tag = "Left"
         THEN LET e == Eval(hs[1], either.val) IN [out |-> Left(e.out), ran |-> e.ran]
         ELSE LET e == Eval(hs[2], either.val) IN [out |-> Right(e.out), ran |-> e.ran]
    ELSE IF either.tag = "Left"
         THEN LET e == Eval(hs[1], either.val) IN [out |-> Left(e.out), ran |-> e.ran]
         ELSE LET m == map_one_of(either.val, Tail(hs))
              IN  [out |-> Right(m.out), ran |-> m.ran]

\* The handlers of a call on one_of!(T1, .., Tk), in textual order.
Handlers(k) == [i \in 1..k |-> i]

\* The requests: every combination of what T1..Tk's extractors return.
RECURSIVE OutcomeSeqs(_)
OutcomeSeqs(k) ==
    IF k = 0 THEN {<<>>}
    ELSE {Append(s, o) : s \in OutcomeSeqs(k - 1), o \in Outcomes(k)}

Init ==
    /\ n \in Arities
    /\ outcome \in OutcomeSeqs(n)
    /\ phase = "extract"
    /\ stack = <<Frame("start", None)>>
    /\ inflight = 0
    /\ ret = None
    /\ log = <<>>
    /\ extracted = None
    /\ handled = None
    /\ response = None

\* ------------------------------------------- AxumEither::from_request
\* lib.rs:194  `L::from_request(req)` is called: L is the leaf type Td.
CallLeft ==
    /\ phase = "extract" /\ Depth > 0
    /\ stack[Depth].pc = "start"
    /\ inflight' = Depth
    /\ log' = Append(log, <<"begin", Depth>>)
    /\ stack' = SetTop(Frame("await_left", None))
    /\ UNCHANGED <<n, outcome, phase, ret, extracted, handled, response>>

\* A leaf extraction in flight completes (`.await` is ready) with what the
\* type's extractor returns for the request.
LeafComplete ==
    /\ phase = "extract" /\ inflight # 0
    /\ ret' = outcome[inflight]
    /\ log' = Append(log, <<"end", inflight>>)
    /\ inflight' = 0
    /\ UNCHANGED <<n, outcome, phase, stack, extracted, handled, response>>

\* The Ok arm of the Left match returning Right.
LeftOk_tagsRight ==
    /\ phase = "extract" /\ Depth > 0
    /\ stack[Depth].pc = "await_left"
    /\ ret # None /\ ret.ok
    /\ ret' = Ok(Right(ret.val))
    /\ stack' = Pop
    /\ UNCHANGED <<n, outcome, phase, inflight, log, extracted, handled, response>>

\* The Ok arm of the Left match keeping the value and going on to the Right
\* extraction instead of returning.
LeftOk_continues ==
    /\ phase = "extract" /\ Depth > 0
    /\ stack[Depth].pc = "await_left"
    /\ ret # None /\ ret.ok
    /\ ret' = None
    /\ stack' = SetTop(Frame("right", ret.val))
    /\ UNCHANGED <<n, outcome, phase, inflight, log, extracted, handled, response>>

\* lib.rs:195  Ok(l) => return Ok(Self::Left(l))
LeftOk ==
    /\ phase = "extract" /\ Depth > 0
    /\ stack[Depth].pc = "await_left"
    /\ ret # None /\ ret.ok
    /\ ret' = Ok(Left(ret.val))
    /\ stack' = Pop
    /\ UNCHANGED <<n, outcome, phase, inflight, log, extracted, handled, response>>

\* lib.rs:196  Err(e) => e, bound to left_error
LeftErr ==
    /\ phase = "extract" /\ Depth > 0
    /\ stack[Depth].pc = "await_left"
    /\ ret # None /\ ~ret.ok
    /\ stack' = SetTop(Frame("right", ret.err))
    /\ ret' = None
    /\ UNCHANGED <<n, outcome, phase, inflight, log, extracted, handled, response>>

\* lib.rs:199  `R::from_request(req)` is called: R is the leaf type TN in
\* the innermost AxumEither, and the nested AxumEither otherwise.
CallRight ==
    /\ phase = "extract" /\ Depth > 0
    /\ stack[Depth].pc = "right"
    /\ IF Depth = n - 1
       THEN /\ inflight' = n
            /\ log' = Append(log, <<"begin", n>>)
            /\ stack' = SetTop(Frame("await_right", stack[Depth].left_error))
       ELSE /\ stack' = Append(SetTop(Frame("await_right", stack[Depth].left_error)),
                               Frame("start", None))
            /\ UNCHANGED <<inflight, log>>
    /\ UNCHANGED <<n, outcome, phase, ret, extracted, handled, response>>

\* The Ok arm of the Right match returning Left.
RightOk_tagsLeft ==
    /\ phase = "extract" /\ Depth > 0
    /\ stack[Depth].pc = "await_right"
    /\ ret # None /\ ret.ok
    /\ ret' = Ok(Left(ret.val))
    /\ stack' = Pop
    /\ UNCHANGED <<n, outcome, phase, inflight, log, extracted, handled, response>>

\* lib.rs:200  Ok(r) => return Ok(Self::Right(r))
RightOk ==
    /\ phase = "extract" /\ Depth > 0
    /\ stack[Depth].pc = "await_right"
    /\ ret # None /\ ret.ok
    /\ ret' = Ok(Right(ret.val))
    /\ stack' = Pop
    /\ UNCHANGED <<n, outcome, phase, inflight, log, extracted, handled, response>>

\* The rejection built from the right error alone.
RightErr_dropsLeft ==
    /\ phase = "extract" /\ Depth > 0
    /\ stack[Depth].pc = "await_right"
    /\ ret # None /\ ~ret.ok
    /\ ret' = Err(AxumEitherRejection(ret.err, ret.err))
    /\ stack' = Pop
    /\ UNCHANGED <<n, outcome, phase, inflight, log, extracted, handled, response>>

\* lib.rs:201-207  Err(e) => e, bound to right_error; Err(AxumEitherRejection {..})
RightErr ==
    /\ phase = "extract" /\ Depth > 0
    /\ stack[Depth].pc = "await_right"
    /\ ret # None /\ ~ret.ok
    /\ ret' = Err(AxumEitherRejection(stack[Depth].left_error, ret.err))
    /\ stack' = Pop
    /\ UNCHANGED <<n, outcome, phase, inflight, log, extracted, handled, response>>

\* The outermost from_request has returned: the framework hands Ok(value) to
\* the handler, and turns Err(rejection) into the response.
Extracted ==
    /\ phase = "extract" /\ Depth = 0 /\ ret # None
    /\ extracted' = ret
    /\ ret' = None
    /\ phase' = IF ret.ok THEN "handle" ELSE "reject"
    /\ UNCHANGED <<n, outcome, stack, inflight, log, handled, response>>

\* ------------------------------------------------------------ handlers
\* examples/one_of_extract.rs:51-60  as_string (and get_request_type):
\* match_one_of! over the extracted chain; the String is the response.
HandleMatch ==
    /\ phase = "handle"
    /\ LET m == match_one_of(extracted.val, Handlers(n))
       IN  /\ handled' = [kind |-> "match", out |-> m.out, ran |-> m.ran]
           /\ response' = Response(200, "text/plain; charset=utf-8", <<<<"val", m.out>>>>)
    /\ phase' = "done"
    /\ UNCHANGED <<n, outcome, stack, inflight, ret, log, extracted>>

\* examples/one_of_extract.rs:40-49  echo: map_one_of! over the extracted
\* chain; the mapped chain is returned to the framework.
HandleMap ==
    /\ phase = "handle"
    /\ LET m == map_one_of(extracted.val, Handlers(n))
       IN  handled' = [kind |-> "map", out |-> m.out, ran |-> m.ran]
    /\ phase' = "respond"
    /\ UNCHANGED <<n, outcome, stack, inflight, ret, log, extracted, response>>

\* examples/form_or_json.rs:70-80  bye: map_lr(lf, rf).into_inner() on an
\* AxumEither<Json<_>, Form<_>>; the String is the response.
HandleBye ==
    /\ phase = "handle" /\ n = 2
    /\ \E f \in Fns, g \in Fns :
          LET mapped == map_lr(extracted.val, Closure("lf", f), Closure("rf", g))
              inner == into_inner(mapped)
          IN  /\ handled' = [kind |-> "bye", f |-> f, g |-> g, mapped |-> mapped, out |-> inner]
              /\ response' = Response(200, "text/plain; charset=utf-8", <<<<"val", inner>>>>)
    /\ phase' = "done"
    /\ UNCHANGED <<n, outcome, stack, inflight, ret, log, extracted>>

\* The framework renders the AxumEither a handler returned.
Respond ==
    /\ phase = "respond"
    /\ LET r == AxumEither_into_response(handled.out)
       IN  /\ response' = r.resp
           /\ handled' = [handled EXCEPT !.kind = "responded"] @@ [calls |-> r.calls]
    /\ phase' = "done"
    /\ UNCHANGED <<n, outcome, stack, inflight, ret, log, extracted>>

\* The framework renders the rejection of a failed extraction.
Reject ==
    /\ phase = "reject"
    /\ response' = AxumEitherRejection_into_response(extracted.err)
    /\ phase' = "done"
    /\ UNCHANGED <<n, outcome, stack, inflight, ret, log, extracted, handled>>

Next ==
    \/ CallLeft
    \/ LeafComplete
    \/ LeftOk
    \/ LeftErr
    \/ CallRight
    \/ RightOk
    \/ RightErr
    \/ Extracted
    \/ HandleMatch
    \/ HandleMap
    \/ HandleBye
    \/ Respond
    \/ Reject

Spec == Init /\ [][Next]_vars

\* ================================================================ claims
\* Vocabulary of the claims.

\* The first declared type whose extractor accepts the request (0: none).
FirstOk ==
    IF \E i \in 1..n : outcome[i].ok
    THEN CHOOSE i \in 1..n : outcome[i].ok /\ \A j \in 1..(i - 1) : ~outcome[j].ok
    ELSE 0

\* The value of one_of!(T1, .., Tm) populated at position k with payload p.
RECURSIVE Inject(_, _, _)
Inject(k, p, m) ==
    IF k = 1 THEN Left(p)
    ELSE IF m = 2 THEN Right(p)
    ELSE Right(Inject(k - 1, p, m - 1))

\* The failure of one_of!(Td, .., TN) when every one of Td..TN fails (the
\* failure of TN itself when d = N).
RECURSIVE AllFailed(_)
AllFailed(d) ==
    IF d = n THEN outcome[n].err
    ELSE AxumEitherRejection(outcome[d].err, AllFailed(d + 1))

Began(i) == \E j \in 1..Len(log) : log[j] = <<"begin", i>>
Ended(i) == \E j \in 1..Len(log) : log[j] = <<"end", i>>

\* The Right side R of the outermost AxumEither accepts the request, and the
\* value it parses.
RightAccepts == \E i \in 2..n : outcome[i].ok
RightValue ==
    IF n = 2 THEN outcome[2].val
    ELSE Inject(FirstOk - 1, outcome[FirstOk].val, n - 1)

ExtractionReturned == extracted # None
Rejected == extracted # None /\ ~extracted.ok
Rendered == Rejected /\ phase = "done"

\* C1: whenever the Left type's extraction succeeds, from_request returns
\* Ok(Left(its value)) and no extraction of the Right side is ever begun,
\* also when the Right type accepts the same request.
C1_LeftBiased ==
    outcome[1].ok =>
        /\ \A i \in 2..n : ~Began(i)
        /\ ExtractionReturned => extracted = Ok(Left(outcome[1].val))

C1_Witness ==
    /\ ExtractionReturned /\ outcome[1].ok /\ outcome[2].ok
    /\ extracted.val.tag = "Left" /\ Ended(1)

\* C2: when the Left type rejects the request and the Right side accepts it,
\* from_request returns Ok(Right(v)), v the value the Right side parsed, and
\* the result carries no failure value.
C2_Fallback ==
    (ExtractionReturned /\ ~outcome[1].ok /\ RightAccepts) =>
        /\ extracted = Ok(Right(RightValue))
        /\ DOMAIN extracted = {"ok", "val"}

C2_Witness ==
    /\ ExtractionReturned /\ ~outcome[1].ok /\ outcome[2].ok
    /\ extracted.ok /\ extracted.val.tag = "Right" /\ Ended(1) /\ Ended(2)

\* C3: from_request returns an error exactly when the Left and the Right
\* extraction both fail, and then left_error is the Left extraction's failure
\* and right_error the Right extraction's failure, unaltered.
C3_DoubleFailure ==
    ExtractionReturned =>
        /\ ~extracted.ok <=> (~outcome[1].ok /\ ~RightAccepts)
        /\ ~extracted.ok =>
              /\ extracted.err.left_error = outcome[1].err
              /\ extracted.err.right_error = AllFailed(2)
              /\ DOMAIN extracted.err = {"left_error", "right_error"}

C3_Witness ==
    /\ Rejected /\ n >= 3
    /\ outcome[1].err.status # outcome[2].err.status
    /\ \A i \in 1..n : Ended(i)

\* C4: the rendered aggregated failure has a 5xx status if the rendered left
\* failure or the rendered right failure has a 5xx status, and a 4xx status
\* otherwise; a request that two extractors reject with client errors is
\* answered with a client error.
IsClientError(s) == 500 > s /\ s >= 400
C4_StatusClass ==
    Rendered =>
        LET l == AxumEitherRejection_into_response(extracted.err.left_error)
            r == AxumEitherRejection_into_response(extracted.err.right_error)
        IN  /\ (l.status \in 500..599 \/ r.status \in 500..599) => response.status \in 500..599
            /\ ~(l.status \in 500..599 \/ r.status \in 500..599) => response.status \in 400..499
            /\ (n = 2 /\ IsClientError(outcome[1].err.status)
                      /\ IsClientError(outcome[2].err.status)) => IsClientError(response.status)

C4_Witness ==
    /\ Rendered /\ n = 2
    /\ outcome[1].err.status = 400 /\ outcome[2].err.status = 503
    /\ response.status = 500

\* C5 as stated: the body of the rendered aggregated failure is a two-line
\* report, the Debug form of the left failure then that of the right
\* failure, and the content-type is plain text.
C5_TwoLineBody ==
    Rendered =>
        LET l == AxumEitherRejection_into_response(extracted.err.left_error)
            r == AxumEitherRejection_into_response(extracted.err.right_error)
            lines == Lines(response.body)
        IN  /\ Len(lines) = 2
            /\ \E j \in 1..Len(lines[1]) : lines[1][j] = Debug(l)
            /\ \E j \in 1..Len(lines[2]) : lines[2][j] = Debug(r)
            /\ response.content_type = "text/plain"

\* C5 (amended): the body of the rendered aggregated failure is a fixed
\* three-line report: the heading "Could not parse request", then a line
\* labelled "left error" with the Debug form of the left failure's rendered
\* response, then a line labelled "right error" with that of the right
\* failure's; the content-type is plain text.
C5_ThreeLineBody ==
    Rendered =>
        LET l == AxumEitherRejection_into_response(extracted.err.left_error)
            r == AxumEitherRejection_into_response(extracted.err.right_error)
            lines == Lines(response.body)
        IN  /\ Len(lines) = 3
            /\ lines[1] = <<Lit("Could not parse request")>>
            /\ lines[2] = <<Lit("\tleft error: "), Debug(l)>>
            /\ lines[3] = <<Lit("\tright error: "), Debug(r)>>
            /\ response.content_type = "text/plain"

C5_Witness ==
    /\ Rendered
    /\ outcome[1].err.status # AxumEitherRejection_into_response(extracted.err.right_error).status
    /\ Len(Lines(response.body)) = 3

\* C6: AxumEither::into_response returns exactly the response of the
\* populated payload's own into_response; for a chain populated at position
\* k that is the k-th payload's, and no other payload's into_response runs.
C6_Delegation ==
    (handled # None /\ handled.kind = "responded") =>
        LET k == FirstOk
            p == [handler |-> k, arg |-> outcome[k].val]
        IN  /\ handled.out = Inject(k, p, n)
            /\ response = PayloadIntoResponse(p)
            /\ handled.calls = <<p>>

C6_Witness ==
    /\ handled # None /\ handled.kind = "responded"
    /\ n >= 3 /\ FirstOk = 2 /\ outcome[3].ok
    /\ response.status = 200

\* C7: match_one_of! with N handlers on a chain populated at position k
\* evaluates the k-th handler with the populated payload bound, evaluates no
\* other handler, and returns that handler's result.
C7_MatchOneOf ==
    (handled # None /\ handled.kind = "match") =>
        LET k == FirstOk
        IN  /\ extracted.val = Inject(k, outcome[k].val, n)
            /\ handled.ran = <<k>>
            /\ handled.out = [handler |-> k, arg |-> outcome[k].val]

C7_Witness ==
    /\ handled # None /\ handled.kind = "match"
    /\ n >= 3 /\ FirstOk = n /\ handled.ran = <<n>>

\* C8: map_one_of! with N handlers on a chain populated at position k returns
\* a chain of the same shape populated at position k with the k-th handler's
\* result on the original payload; no other handler is evaluated.
C8_MapOneOf ==
    (handled # None /\ handled.kind = "map") =>
        LET k == FirstOk
        IN  /\ extracted.val = Inject(k, outcome[k].val, n)
            /\ handled.out = Inject(k, [handler |-> k, arg |-> outcome[k].val], n)
            /\ handled.ran = <<k>>

C8_Witness ==
    /\ handled # None /\ handled.kind = "map"
    /\ n >= 3 /\ FirstOk = n - 1 /\ handled.ran = <<n - 1>>

\* C9: map_lr(f, g).into_inner() is f(x) for Left(x) and g(y) for Right(y):
\* only the populated side's function is applied and the tag is kept in
\* between; into_inner returns v for Left(v) and for Right(v); with f and g
\* equal the result is the same whichever variant holds the value.
C9_MapLrIntoInner ==
    /\ (handled # None /\ handled.kind = "bye") =>
          LET e == extracted.val
          IN  /\ handled.mapped.tag = e.tag
              /\ e.tag = "Left" =>
                    handled.out = [ty |-> e.val.ty, v |-> handled.f[e.val.v], by |-> "lf"]
              /\ e.tag = "Right" =>
                    handled.out = [ty |-> e.val.ty, v |-> handled.g[e.val.v], by |-> "rf"]
    /\ \A v \in Values :
          /\ into_inner(Left(Payload(1, v))) = Payload(1, v)
          /\ into_inner(Right(Payload(1, v))) = Payload(1, v)
          /\ \A f \in Fns :
                into_inner(map_lr(Left(Payload(1, v)), Closure("lf", f), Closure("rf", f))).v
                  = into_inner(map_lr(Right(Payload(2, v)), Closure("lf", f), Closure("rf", f))).v

C9_Witness ==
    /\ handled # None /\ handled.kind = "bye"
    /\ extracted.val.tag = "Right"
    /\ handled.f # handled.g
    /\ handled.out.v = handled.g[outcome[2].val.v]
    /\ handled.out.v # handled.f[outcome[2].val.v]

\* C10: the extractions of one_of!(T1, .., TN) run in declaration order, each
\* at most once, the next beginning only after the previous one ended in
\* failure; extraction stops at the first success, and the result is the
\* chain populated at the position of the first type that succeeds.
LastAttempted == IF FirstOk = 0 THEN n ELSE FirstOk
ExpectedLog ==
    [j \in 1..(2 * LastAttempted) |->
        IF j % 2 = 1 THEN <<"begin", (j + 1) \div 2>> ELSE <<"end", j \div 2>>]
C10_DeclarationOrder ==
    /\ Len(log) <= Len(ExpectedLog)
    /\ \A j \in 1..Len(log) : log[j] = ExpectedLog[j]
    /\ ExtractionReturned =>
          /\ log = ExpectedLog
          /\ FirstOk # 0 => extracted = Ok(Inject(FirstOk, outcome[FirstOk].val, n))
          /\ FirstOk = 0 => ~extracted.ok

C10_Witness ==
    /\ ExtractionReturned /\ extracted.ok
    /\ n >= 3 /\ FirstOk = 2 /\ outcome[3].ok
    /\ log = <<<<"begin", 1>>, <<"end", 1>>, <<"begin", 2>>, <<"end", 2>>>>

\* C11: when all N extractions of one_of!(T1, .., TN) fail, the rendered
\* nested aggregated failure has status 500 if at least one of the N per-type
\* failures renders to a 5xx status on its own, whatever its position, and
\* status 400 if none does.
SomeLeafServerError ==
    \E i \in 1..n : LeafRejectionIntoResponse(outcome[i].err).status \in 500..599
C11_NeverMasked ==
    Rendered =>
        /\ \A i \in 1..n : ~outcome[i].ok
        /\ SomeLeafServerError => response.status = 500
        /\ ~SomeLeafServerError => response.status = 400

C11_Witness ==
    /\ Rendered /\ n >= 3
    /\ outcome[n].err.status = 503
    /\ \A i \in 1..(n - 1) : outcome[i].err.status \in {303, 400, 415}
    /\ response.status = 500

====
